---- MODULE Spec2Model ----
(***************************************************************************)
(* A model of serve.py: socketserver.TCPServer(("", PORT),                 *)
(* ThreadSafeHandler) running serve_forever(), where ThreadSafeHandler is  *)
(* http.server.SimpleHTTPRequestHandler with end_headers() overridden to   *)
(* add two headers.  The behaviour the script inherits from the Python     *)
(* 3.11 standard library (socketserver.py, http/server.py, posixpath.py)   *)
(* is translated from that library, method by method, under the names the  *)
(* library uses.                                                           *)
(*                                                                         *)
(* Strings of bytes are sequences of tokens.  A request path is a record   *)
(* [abs, segs, slash]: a leading "/", the "/"-separated segments as the    *)
(* client wrote them (still percent-encoded), a trailing "/".  Paths carry *)
(* no "?query" or "#fragment" and no empty segment.  A header block is a   *)
(* sequence of <<name, value>> lines; the status line is the line          *)
(* <<protocol version, status code>>.                                      *)
(***************************************************************************)
EXTENDS Integers, Sequences, FiniteSets, TLC

VARIABLES main, stdout, backlog, conn, hd

vars == <<main, stdout, backlog, conn, hd>>

(***************************************************************************)
(* Bounds of the model.                                                    *)
(***************************************************************************)
\* connections the clients open in one run
MaxConns == 2
\* requests a client sends on one connection
MaxReqs == 2
\* segments of a request path
MaxSegs == 2
\* bytes copyfileobj moves per read/write round (COPY_BUFSIZE, scaled down)
ChunkSize == 2

Conns == 1..MaxConns

(***************************************************************************)
(* serve.py's own constants.                                               *)
(***************************************************************************)
PORT == 8000

COOP == <<"Cross-Origin-Opener-Policy", "same-origin">>

COEP == <<"Cross-Origin-Embedder-Policy", "require-corp">>

Banner == "Serving with thread-safe headers at http://localhost:" \o ToString(PORT)

protocol_version_11 == "HTTP/1.1"

\* ThreadSafeHandler sets no protocol_version: it inherits the base class's.
protocol_version == "HTTP/1.0"

default_request_version_10 == "HTTP/1.0"

\* the version a reply is written in until the request line's version is accepted
default_request_version == "HTTP/0.9"

(***************************************************************************)
(* The filesystem the process runs in.  The served root is the working     *)
(* directory, /srv; /secret lies outside it.  Paths handed to the kernel   *)
(* are sequences of components.                                            *)
(***************************************************************************)
directory == <<"srv">>

Dirs == { <<>>, <<"srv">>, <<"srv", "d">>, <<"srv", "e">> }

Files ==
  { [path |-> <<"srv", "a">>, content |-> <<"a1", "a2", "a3">>, readable |-> TRUE, mtime |-> 5],
    [path |-> <<"srv", "s">>, content |-> <<"s1">>, readable |-> FALSE, mtime |-> 5],
    [path |-> <<"srv", "d", "index.html">>, content |-> <<"i1">>, readable |-> TRUE, mtime |-> 5],
    [path |-> <<"srv", "e", "a">>, content |-> <<"f1", "f2">>, readable |-> TRUE, mtime |-> 5],
    [path |-> <<"secret">>, content |-> <<"k1", "k2">>, readable |-> TRUE, mtime |-> 5] }

\* directory entries in the order sort(key=lower) gives them
SortedNames == <<"a", "d", "e", "index.html", "s", "secret", "srv">>

Range(s) == { s[i] : i \in DOMAIN s }

IsPrefix(p, q) == Len(p) <= Len(q) /\ SubSeq(q, 1, Len(p)) = p

\* the kernel's path walk: "." stays, ".." goes up (the root is its own parent)
RECURSIVE OsResolve(_, _)
OsResolve(comps, at) ==
  IF comps = <<>> THEN at
  ELSE LET c == Head(comps) IN
       OsResolve(Tail(comps),
                 IF c = "." THEN at
                 ELSE IF c = ".." THEN (IF at = <<>> THEN at ELSE SubSeq(at, 1, Len(at) - 1))
                 ELSE Append(at, c))

\* os.path.isdir(path): a trailing "/" is allowed on a directory
isdir(p) == OsResolve(p.comps, <<>>) \in Dirs

FileAt(comps) == { f \in Files : f.path = OsResolve(comps, <<>>) }

\* os.path.isfile(path)
isfile(p) == ~p.slash /\ FileAt(p.comps) # {}

\* open(path, 'rb') succeeds: a readable regular file, named without a trailing "/"
CanOpen(p) == ~p.slash /\ \E f \in FileAt(p.comps) : f.readable

TheFile(p) == CHOOSE f \in FileAt(p.comps) : TRUE

\* os.listdir(path), sorted as list_directory sorts it, directories with "/" appended
ListEntries(p) ==
  LET d == OsResolve(p.comps, <<>>)
      isEntry(n) == Append(d, n) \in Dirs \/ (\E f \in Files : f.path = Append(d, n))
      F[i \in 0..Len(SortedNames)] ==
        IF i = 0 THEN <<>>
        ELSE IF isEntry(SortedNames[i])
             THEN Append(F[i - 1], IF Append(d, SortedNames[i]) \in Dirs
                                   THEN SortedNames[i] \o "/" ELSE SortedNames[i])
             ELSE F[i - 1]
  IN F[Len(SortedNames)]

(***************************************************************************)
(* Request paths and translate_path.                                       *)
(***************************************************************************)
\* the segments a client may write
Segs == { "a", "d", "nope", "secret", ".", "..", "%2e%2e", "%2e%2e%2fsecret" }

\* urllib.parse.unquote on one segment; "%2f" decodes to a separator
unquote(seg) ==
  CASE seg = "%2e%2e" -> <<"..">>
    [] seg = "%2e%2e%2fsecret" -> <<"..", "secret">>
    [] OTHER -> <<seg>>

RECURSIVE unquoteAll(_)
unquoteAll(segs) ==
  IF segs = <<>> THEN <<>> ELSE unquote(Head(segs)) \o unquoteAll(Tail(segs))

\* posixpath.normpath's loop over the components
RECURSIVE normcomps(_, _, _)
normcomps(comps, new_comps, initial_slashes) ==
  IF comps = <<>> THEN new_comps
  ELSE LET comp == Head(comps) IN
       normcomps(Tail(comps),
                 IF comp \in {"", "."} THEN new_comps
                 ELSE IF \/ comp # ".."
                         \/ (~initial_slashes /\ new_comps = <<>>)
                         \/ (new_comps # <<>> /\ new_comps[Len(new_comps)] = "..")
                      THEN Append(new_comps, comp)
                 ELSE IF new_comps # <<>> THEN SubSeq(new_comps, 1, Len(new_comps) - 1)
                 ELSE new_comps,
                 initial_slashes)

\* posixpath.normpath: the components of the normalised path ("." for an empty one)
normpath(abs, comps) ==
  LET n == normcomps(comps, <<>>, abs) IN
  IF n = <<>> /\ ~abs THEN <<".">> ELSE n

\* the raw path ends with "/"
EndsWithSlash(path) == IF path.segs = <<>> THEN path.abs ELSE path.slash

joinwords_unfiltered(path, words) == path \o words

\* the loop of translate_path that drops "." and ".." words
RECURSIVE joinwords(_, _)
joinwords(path, words) ==
  IF words = <<>> THEN path
  ELSE joinwords(IF Head(words) \in {".", ".."} THEN path ELSE Append(path, Head(words)),
                 Tail(words))

translate_path(path) ==
  LET trailing_slash == EndsWithSlash(path)
      words == normpath(path.abs, unquoteAll(path.segs))
  IN [comps |-> joinwords(directory, words), slash |-> trailing_slash]

\* os.path.join(path, index)
JoinName(p, name) == [comps |-> Append(p.comps, name), slash |-> FALSE]

(***************************************************************************)
(* Requests as the client writes them.  kind is the shape of the request   *)
(* line: "blank" (an empty line), "toolong" (more than 65536 bytes), or    *)
(* the number of words on it, "w1".."w4".  The words are command, path,    *)
(* (for w4, a stray word,) version.  hdr is the shape of the header block: *)
(* "ok", "nocolon" (a first line without a colon, after which the parser   *)
(* reads no header), "toolong" (a line over 65536 bytes), "toomany" (over  *)
(* 100 header lines).                                                      *)
(***************************************************************************)
VersionNumber ==
  [v \in {"HTTP/0.9", "HTTP/1.0", "HTTP/1.1", "HTTP/2.0"} |->
     CASE v = "HTTP/0.9" -> <<0, 9>> [] v = "HTTP/1.0" -> <<1, 0>> [] v = "HTTP/1.1" -> <<1, 1>>
       [] OTHER -> <<2, 0>>]

\* version.startswith('HTTP/') and int.int parses
ValidVersion(v) == v \in DOMAIN VersionNumber

TupleGE(a, b) == a[1] > b[1] \/ (a[1] = b[1] /\ a[2] >= b[2])

\* Python's string order on the version strings that occur
StrRank ==
  [v \in {"", "FOO/1.1", "HTTP/0.9", "HTTP/1.0", "HTTP/1.1", "HTTP/2.0"} |->
     CASE v = "" -> 0 [] v = "FOO/1.1" -> 1 [] v = "HTTP/0.9" -> 2 [] v = "HTTP/1.0" -> 3
       [] v = "HTTP/1.1" -> 4 [] OTHER -> 5]

StrGE(a, b) == StrRank[a] >= StrRank[b]

\* str.lower on the header values that occur
lower(s) == CASE s = "Keep-Alive" -> "keep-alive" [] s = "Close" -> "close" [] OTHER -> s

\* email.utils.parsedate_to_datetime on the If-Modified-Since values that occur:
\* the time, or no time for an ill-formed value
parsedate == [v \in {"old", "new", "bad"} |->
                CASE v = "old" -> <<3>> [] v = "new" -> <<7>> [] OTHER -> <<>>]

(***************************************************************************)
(* The handler's methods.  x is the handler object while it answers one    *)
(* request: request_version, close_connection, command, the header buffer  *)
(* hbuf, and what it has written to the socket for this request (head: the *)
(* flushed header lines, body: the bytes written after them), and the file *)
(* object f that send_head returned (hasf: there is one).                  *)
(***************************************************************************)
BlankLine == <<"", "">>

\* BaseHTTPRequestHandler.send_response_only
send_response_only(x, code) ==
  IF x.request_version # "HTTP/0.9"
  THEN [x EXCEPT !.hbuf = Append(@, <<protocol_version, ToString(code)>>)]
  ELSE x

\* BaseHTTPRequestHandler.send_header
send_header(x, keyword, value) ==
  LET x1 == IF x.request_version # "HTTP/0.9"
            THEN [x EXCEPT !.hbuf = Append(@, <<keyword, value>>)]
            ELSE x
  IN IF lower(keyword) = "connection"
     THEN IF lower(value) = "close" THEN [x1 EXCEPT !.close_connection = TRUE]
          ELSE IF lower(value) = "keep-alive" THEN [x1 EXCEPT !.close_connection = FALSE]
          ELSE x1
     ELSE x1

\* BaseHTTPRequestHandler.send_response
send_response(x, code) ==
  send_header(send_header(send_response_only(x, code), "Server", "SimpleHTTP"), "Date", "now")

\* BaseHTTPRequestHandler.flush_headers
flush_headers(x) ==
  [x EXCEPT !.head = @ \o x.hbuf, !.hbuf = <<>>]

\* BaseHTTPRequestHandler.end_headers
base_end_headers(x) ==
  IF x.request_version # "HTTP/0.9"
  THEN flush_headers([x EXCEPT !.hbuf = Append(@, BlankLine)])
  ELSE x

end_headers_not_overridden(x) == base_end_headers(x)

\* ThreadSafeHandler.end_headers
end_headers(x) ==
  base_end_headers(send_header(send_header(x, COOP[1], COOP[2]), COEP[1], COEP[2]))

\* the page send_error formats: it names the code
ErrorBody(code) == <<"error", ToString(code)>>

\* BaseHTTPRequestHandler.send_error
send_error(x, code) ==
  LET x1 == send_header(send_response(x, code), "Connection", "close")
      hasBody == code >= 200 /\ code \notin {204, 205, 304}
      body == ErrorBody(code)
      x2 == IF hasBody
            THEN send_header(send_header(x1, "Content-Type", "text/html;charset=utf-8"),
                             "Content-Length", ToString(Len(body)))
            ELSE x1
      x3 == end_headers(x2)
  IN IF x.command # "HEAD" /\ hasBody
     THEN [x3 EXCEPT !.body = @ \o body]
     ELSE x3

\* BaseHTTPRequestHandler.parse_request: [ok, x]
parse_request(x, r) ==
  LET nwords == CASE r.kind = "blank" -> 0 [] r.kind = "w1" -> 1 [] r.kind = "w2" -> 2
                  [] r.kind = "w3" -> 3 [] OTHER -> 4
      x0 == [x EXCEPT !.command = "None", !.request_version = default_request_version,
                      !.close_connection = TRUE]
      version == r.version
      vn == VersionNumber[version]
      x1 == IF nwords >= 3 /\ TupleGE(vn, <<1, 1>>) /\ StrGE(protocol_version, "HTTP/1.1")
            THEN [x0 EXCEPT !.close_connection = FALSE] ELSE x0
      x2 == IF nwords >= 3 THEN [x1 EXCEPT !.request_version = version] ELSE x1
      x3 == IF nwords = 2 THEN [x2 EXCEPT !.close_connection = TRUE] ELSE x2
      x4 == [x3 EXCEPT !.command = r.command]
      conntype == IF r.hdr = "ok" THEN r.connection ELSE ""
      x5 == IF lower(conntype) = "close" THEN [x4 EXCEPT !.close_connection = TRUE]
            ELSE IF lower(conntype) = "keep-alive" /\ StrGE(protocol_version, "HTTP/1.1")
                 THEN [x4 EXCEPT !.close_connection = FALSE]
            ELSE x4
  IN IF nwords = 0 THEN [ok |-> FALSE, x |-> x0]
     ELSE IF nwords >= 3 /\ ~ValidVersion(version)
          THEN [ok |-> FALSE, x |-> send_error(x0, 400)]
     ELSE IF nwords >= 3 /\ TupleGE(vn, <<2, 0>>)
          THEN [ok |-> FALSE, x |-> send_error(x1, 505)]
     ELSE IF ~(2 <= nwords /\ nwords <= 3)
          THEN [ok |-> FALSE, x |-> send_error(x2, 400)]
     ELSE IF nwords = 2 /\ r.command # "GET"
          THEN [ok |-> FALSE, x |-> send_error(x3, 400)]
     ELSE IF r.hdr \in {"toolong", "toomany"}
          THEN [ok |-> FALSE, x |-> send_error(x4, 431)]
     ELSE [ok |-> TRUE, x |-> x5]

IndexNames_htm_only == <<"index.htm">>

\* the names send_head tries in a directory, in order
IndexNames == <<"index.html", "index.htm">>

\* SimpleHTTPRequestHandler.list_directory: the listing is returned as a file object
list_directory(x, path) ==
  LET encoded == <<"listing">> \o ListEntries(path)
      x1 == send_header(send_header(send_response(x, 200), "Content-type", "text/html"),
                        "Content-Length", ToString(Len(encoded)))
  IN [end_headers(x1) EXCEPT !.hasf = TRUE, !.f = encoded]

open_error_500(x) == send_error(x, 500)

open_error_403(x) == send_error(x, 403)

\* the except OSError clause around open() in send_head
open_error(x) == send_error(x, 404)

\* SimpleHTTPRequestHandler.send_head, from the open() on
send_file(x, r, path) ==
  IF path.slash THEN send_error(x, 404)
  ELSE IF ~CanOpen(path) THEN open_error(x)
  ELSE LET fs == TheFile(path)
           ims == IF r.hdr = "ok" /\ r.ims # "none" THEN parsedate[r.ims] ELSE <<>>
       IN IF ims # <<>> /\ fs.mtime <= ims[1]
          THEN end_headers(send_response(x, 304))
          ELSE LET x1 == send_header(send_response(x, 200), "Content-type", "ctype")
                   x2 == send_header(x1, "Content-Length", ToString(Len(fs.content)))
                   x3 == send_header(x2, "Last-Modified", ToString(fs.mtime))
               IN [end_headers(x3) EXCEPT !.hasf = TRUE, !.f = fs.content]

\* SimpleHTTPRequestHandler.send_head
send_head(x, r) ==
  LET path == translate_path(r.path) IN
  IF isdir(path)
  THEN IF ~EndsWithSlash(r.path)
       THEN LET x1 == send_header(send_response(x, 301), "Location", "path/")
            IN end_headers(send_header(x1, "Content-Length", "0"))
       ELSE IF \E i \in DOMAIN IndexNames : isfile(JoinName(path, IndexNames[i]))
            THEN LET i == CHOOSE i \in DOMAIN IndexNames :
                            /\ isfile(JoinName(path, IndexNames[i]))
                            /\ \A j \in 1..(i - 1) : ~isfile(JoinName(path, IndexNames[j]))
                 IN send_file(x, r, JoinName(path, IndexNames[i]))
            ELSE list_directory(x, path)
  ELSE send_file(x, r, path)

Commands_with_POST == {"GET", "HEAD", "POST"}

\* the commands ThreadSafeHandler has a do_ method for
Commands == {"GET", "HEAD"}

\* BaseHTTPRequestHandler.handle_one_request on a request line that was read,
\* up to the copy of the file object that do_GET makes
handle_one_request(x, r) ==
  LET fresh == [x EXCEPT !.head = <<>>, !.body = <<>>, !.hasf = FALSE, !.f = <<>>]
  IN IF r.kind = "toolong"
     THEN send_error([fresh EXCEPT !.request_version = "", !.command = ""], 414)
     ELSE LET p == parse_request(fresh, r) IN
          IF ~p.ok THEN p.x
          ELSE IF p.x.command \notin Commands THEN send_error(p.x, 501)
          ELSE LET x1 == send_head(p.x, r) IN
               IF p.x.command = "HEAD" THEN [x1 EXCEPT !.hasf = FALSE, !.f = <<>>] ELSE x1

\* the handler object BaseHTTPRequestHandler.handle starts with
NewHandler ==
  [request_version |-> "", command |-> "", close_connection |-> TRUE, hbuf |-> <<>>,
   head |-> <<>>, body |-> <<>>, hasf |-> FALSE, f |-> <<>>]

(***************************************************************************)
(* The requests the clients of the model write.                            *)
(***************************************************************************)
Req(k, c, p, v, cn, ims, h) ==
  [kind |-> k, command |-> c, path |-> p, version |-> v, connection |-> cn, ims |-> ims,
   hdr |-> h]

Path(a, s, sl) == [abs |-> a, segs |-> s, slash |-> sl]

RootPath == Path(TRUE, <<>>, FALSE)

Paths ==
  {RootPath} \cup
  { Path(a, s, sl) : a \in BOOLEAN, sl \in BOOLEAN,
                     s \in UNION { [1..k -> Segs] : k \in 1..MaxSegs } }

KeyPaths ==
  { RootPath, Path(TRUE, <<"a">>, FALSE), Path(TRUE, <<"nope">>, FALSE),
    Path(TRUE, <<"s">>, FALSE), Path(TRUE, <<"d">>, TRUE), Path(TRUE, <<"e">>, FALSE),
    Path(TRUE, <<"d", "index.html">>, FALSE),
    Path(TRUE, <<"..", "secret">>, FALSE), Path(TRUE, <<"%2e%2e", "a">>, FALSE) }

ClientCommands == {"GET", "HEAD", "POST", "get"}

ClientVersions == {"HTTP/0.9", "HTTP/1.0", "HTTP/1.1", "HTTP/2.0", "FOO/1.1"}

\* the header blocks: Connection and If-Modified-Since values under a well-formed
\* block, or one of the broken blocks
HeaderBlocks ==
  { <<cn, ims, "ok">> : cn \in {"", "close", "Keep-Alive"}, ims \in {"none", "old", "new", "bad"} }
  \cup { <<"", "none", h>> : h \in {"nocolon", "toolong", "toomany"} }

\* every path, asked for with a plain GET
PathRequests == { Req("w3", "GET", p, "HTTP/1.0", "", "none", "ok") : p \in Paths }

\* every shape of request line and header block, on a few paths
ProtoRequests ==
  { Req("blank", "", RootPath, "", "", "none", "ok"),
    Req("toolong", "", RootPath, "", "", "none", "ok") }
  \cup { Req("w1", c, RootPath, "", "", "none", "ok") : c \in ClientCommands }
  \cup { Req("w2", c, p, "", h[1], h[2], h[3]) :
           c \in ClientCommands, p \in KeyPaths, h \in HeaderBlocks }
  \cup { Req("w3", c, p, v, h[1], h[2], h[3]) :
           c \in ClientCommands, p \in KeyPaths, v \in ClientVersions, h \in HeaderBlocks }
  \cup { Req("w4", c, Path(TRUE, <<"a">>, FALSE), v, "", "none", "ok") :
           c \in ClientCommands, v \in ClientVersions }

AllRequests == PathRequests \cup ProtoRequests

\* what a client sends after its first request on a connection
FollowUps ==
  { Req("w3", "GET", Path(TRUE, <<"a">>, FALSE), "HTTP/1.1", "", "none", "ok"),
    Req("w3", "GET", Path(TRUE, <<"nope">>, FALSE), "HTTP/1.0", "", "none", "ok") }

\* the requests of the runs with several connections
SmallRequests ==
  { Req("w3", "GET", Path(TRUE, <<"a">>, FALSE), "HTTP/1.1", "", "none", "ok"),
    Req("w3", "GET", Path(TRUE, <<"nope">>, FALSE), "HTTP/1.1", "Keep-Alive", "none", "ok"),
    Req("w3", "POST", Path(TRUE, <<"a">>, FALSE), "HTTP/1.0", "", "none", "ok") }

(***************************************************************************)
(* The state.  main: where the script is (start, bound, serving, exited)   *)
(* and its exit status.  stdout: the lines printed.  backlog: connections  *)
(* made and not yet accepted, oldest first.  conn[c]: the connection c --  *)
(* state (unused, pending, accepted, closed: the server's socket), client  *)
(* (open, shut: it sent FIN, gone: it reset), inbuf (requests sent and not *)
(* yet read), nsent, window (the client's receive buffer has room for a    *)
(* chunk), resp (one record per request the server read: the request, the  *)
(* header lines and body bytes written for it, whether the server finished *)
(* it), failed (handle_error printed a traceback for it).  hd[c]: the handler of connection c -- pc (none, readline, copy,   *)
(* loop, raised), the handler object x, the position pos in the file being *)
(* copied.                                                                 *)
(***************************************************************************)
NoHandler == [pc |-> "none", x |-> NewHandler, pos |-> 0]

Init ==
  /\ main = [pc |-> "start", status |-> 0]
  /\ stdout = <<>>
  /\ backlog = <<>>
  /\ conn = [c \in Conns |-> [state |-> "unused", client |-> "open", inbuf |-> <<>>,
                              nsent |-> 0, window |-> TRUE, resp |-> <<>>,
                              failed |-> FALSE]]
  /\ hd = [c \in Conns |-> NoHandler]

\* TCPServer.__init__: server_bind and server_activate, or an OSError out of the script
Bind ==
  /\ main.pc = "start"
  /\ \/ main' = [main EXCEPT !.pc = "bound"]
     \/ main' = [pc |-> "exited", status |-> 1]
  /\ UNCHANGED <<stdout, backlog, conn, hd>>

PrintBanner_before_bind ==
  /\ main.pc \in {"start", "bound"}
  /\ stdout = <<>>
  /\ stdout' = Append(stdout, Banner)
  /\ main' = IF main.pc = "bound" THEN [main EXCEPT !.pc = "serving"] ELSE main
  /\ UNCHANGED <<backlog, conn, hd>>

\* serve.py line 13, then line 14 enters serve_forever
PrintBanner ==
  /\ main.pc = "bound"
  /\ stdout' = Append(stdout, Banner)
  /\ main' = [main EXCEPT !.pc = "serving"]
  /\ UNCHANGED <<backlog, conn, hd>>

(***************************************************************************)
(* The clients.                                                            *)
(***************************************************************************)
\* a client connects: the kernel queues the connection on the listening socket
Connect(c) ==
  /\ main.pc \in {"bound", "serving"}
  /\ conn[c].state = "unused"
  /\ \A d \in Conns : d < c => conn[d].state # "unused"
  /\ conn' = [conn EXCEPT ![c].state = "pending"]
  /\ backlog' = Append(backlog, c)
  /\ UNCHANGED <<main, stdout, hd>>

\* a client writes a request
Send(c, first, max) ==
  /\ conn[c].state \in {"pending", "accepted"}
  /\ conn[c].client = "open"
  /\ conn[c].nsent < max
  /\ \E r \in (IF conn[c].nsent = 0 THEN first ELSE FollowUps) :
       conn' = [conn EXCEPT ![c].inbuf = Append(@, r), ![c].nsent = @ + 1]
  /\ UNCHANGED <<main, stdout, backlog, hd>>

\* a client reads what has arrived, making room for the next chunk
ClientRead(c) ==
  /\ conn[c].state \in {"pending", "accepted"}
  /\ conn[c].client # "gone"
  /\ ~conn[c].window
  /\ conn' = [conn EXCEPT ![c].window = TRUE]
  /\ UNCHANGED <<main, stdout, backlog, hd>>

\* a client shuts down its sending side: the server reads EOF after what was sent
ClientShut(c) ==
  /\ conn[c].state \in {"pending", "accepted"}
  /\ conn[c].client = "open"
  /\ conn' = [conn EXCEPT ![c].client = "shut"]
  /\ UNCHANGED <<main, stdout, backlog, hd>>

\* a client disconnects abruptly: the connection is reset
ClientAbort(c) ==
  /\ conn[c].state \in {"pending", "accepted"}
  /\ conn[c].client # "gone"
  /\ conn' = [conn EXCEPT ![c].client = "gone"]
  /\ UNCHANGED <<main, stdout, backlog, hd>>

(***************************************************************************)
(* The server.                                                             *)
(***************************************************************************)
ServerIdle_threading == TRUE

\* BaseServer.process_request runs finish_request and shutdown_request in the
\* thread of serve_forever: the loop is back at select() only when no handler runs
ServerIdle == \A d \in Conns : hd[d].pc = "none"

except_reraise(m) == [pc |-> "exited", status |-> 1]

\* the except clause of BaseServer._handle_request_noblock: handle_error prints the
\* traceback and the loop of serve_forever goes on
except_Exception(m) == m

loop_again_always(x) == TRUE

\* the test of the while loop of BaseHTTPRequestHandler.handle
loop_again(x) == ~x.close_connection

read_chunk_once(f, pos) ==
  IF pos = 0 THEN SubSeq(f, 1, IF ChunkSize < Len(f) THEN ChunkSize ELSE Len(f)) ELSE <<>>

\* shutil.copyfileobj: the bytes one read(length) returns at position pos
read_chunk(f, pos) ==
  SubSeq(f, pos + 1, IF pos + ChunkSize < Len(f) THEN pos + ChunkSize ELSE Len(f))

readline_newest(inbuf) == inbuf[Len(inbuf)]

\* rfile.readline in handle_one_request: the oldest request line not yet read
readline(inbuf) == Head(inbuf)

\* the record of what the handler wrote for the request r
Exchange(r, x) ==
  [req |-> r, head |-> x.head, body |-> x.body, done |-> ~x.hasf]

\* serve_forever: select() reports the listening socket readable, get_request accepts
\* the oldest queued connection, finish_request builds the handler, which runs
\* setup() and enters handle()
Accept(c) ==
  /\ main.pc = "serving"
  /\ ServerIdle
  /\ backlog # <<>>
  /\ c = Head(backlog)
  /\ backlog' = Tail(backlog)
  /\ conn' = [conn EXCEPT ![c].state = "accepted"]
  /\ hd' = [hd EXCEPT ![c] = [pc |-> "readline", x |-> NewHandler, pos |-> 0]]
  /\ UNCHANGED <<main, stdout>>

ReadRequest_remembering(c) ==
  /\ hd[c].pc = "readline"
  /\ conn[c].client # "gone"
  /\ conn[c].inbuf # <<>>
  /\ LET r == readline(conn[c].inbuf)
         seen == { d \in Conns : d # c /\ conn[d].resp # <<>> }
         x == IF seen = {} THEN handle_one_request(hd[c].x, r)
              ELSE handle_one_request(hd[c].x, conn[CHOOSE d \in seen : TRUE].resp[1].req)
     IN /\ conn' = [conn EXCEPT ![c].inbuf = Tail(@),
                                ![c].resp = Append(@, Exchange(r, x))]
        /\ hd' = [hd EXCEPT ![c] = [pc |-> IF x.hasf THEN "copy" ELSE "loop",
                                    x |-> [x EXCEPT !.head = <<>>, !.body = <<>>],
                                    pos |-> 0]]
  /\ UNCHANGED <<main, stdout, backlog>>

\* handle_one_request: rfile.readline blocks until a request line, EOF or a reset;
\* the request is parsed and answered up to the end of the headers (and the body of
\* an error page)
ReadRequest(c) ==
  /\ hd[c].pc = "readline"
  /\ \/ /\ conn[c].client = "gone"
        /\ hd' = [hd EXCEPT ![c].pc = "raised"]
        /\ UNCHANGED conn
     \/ /\ conn[c].client # "gone"
        /\ conn[c].inbuf # <<>>
        /\ LET r == readline(conn[c].inbuf)
               x == handle_one_request(hd[c].x, r)
           IN /\ conn' = [conn EXCEPT ![c].inbuf = Tail(@),
                                      ![c].resp = Append(@, Exchange(r, x))]
              /\ hd' = [hd EXCEPT ![c] = [pc |-> IF x.hasf THEN "copy" ELSE "loop",
                                          x |-> [x EXCEPT !.head = <<>>, !.body = <<>>],
                                          pos |-> 0]]
     \/ /\ conn[c].client = "shut"
        /\ conn[c].inbuf = <<>>
        /\ hd' = [hd EXCEPT ![c].pc = "loop", ![c].x.close_connection = TRUE]
        /\ UNCHANGED conn
  /\ UNCHANGED <<main, stdout, backlog>>

\* do_GET's copyfile: one round of shutil.copyfileobj; sendall blocks while the
\* client's buffer is full and may raise once the client is gone
CopyChunk(c) ==
  /\ hd[c].pc = "copy"
  /\ LET buf == read_chunk(hd[c].x.f, hd[c].pos)
         n == Len(conn[c].resp)
         written == [conn EXCEPT ![c].resp[n].body = @ \o buf, ![c].window = FALSE]
         advanced == [hd EXCEPT ![c].pos = @ + Len(buf)]
     IN IF buf = <<>>
        THEN /\ hd' = [hd EXCEPT ![c].pc = "loop", ![c].x.hasf = FALSE, ![c].x.f = <<>>,
                                 ![c].pos = 0]
             /\ conn' = [conn EXCEPT ![c].resp[n].done = TRUE]
        ELSE IF conn[c].client = "gone"
        THEN \/ /\ hd' = [hd EXCEPT ![c].pc = "raised"]
                /\ UNCHANGED conn
             \/ /\ hd' = advanced
                /\ conn' = written
        ELSE /\ conn[c].window
             /\ hd' = advanced
             /\ conn' = written
  /\ UNCHANGED <<main, stdout, backlog>>

\* handle's loop test after a request; when it ends, finish() and
\* TCPServer.shutdown_request close the socket
FinishRequest(c) ==
  /\ hd[c].pc = "loop"
  /\ IF loop_again(hd[c].x)
     THEN /\ hd' = [hd EXCEPT ![c].pc = "readline"]
          /\ UNCHANGED conn
     ELSE /\ hd' = [hd EXCEPT ![c] = NoHandler]
          /\ conn' = [conn EXCEPT ![c].state = "closed"]
  /\ UNCHANGED <<main, stdout, backlog>>

HandleError_without_shutdown(c) ==
  /\ hd[c].pc = "raised"
  /\ hd' = [hd EXCEPT ![c] = NoHandler]
  /\ conn' = [conn EXCEPT ![c].failed = TRUE]
  /\ UNCHANGED <<main, stdout, backlog>>

\* an exception leaves the handler: finish() runs, _handle_request_noblock catches
\* it, handle_error reports it and shutdown_request closes the socket
HandleError(c) ==
  /\ hd[c].pc = "raised"
  /\ hd' = [hd EXCEPT ![c] = NoHandler]
  /\ conn' = [conn EXCEPT ![c].state = "closed", ![c].failed = TRUE]
  /\ main' = except_Exception(main)
  /\ UNCHANGED <<stdout, backlog>>

(***************************************************************************)
(* Spec: one client connection, every request of AllRequests.              *)
(* SpecConc: MaxConns connections, one request of SmallRequests on each.    *)
(***************************************************************************)
Next ==
  \/ Bind
  \/ PrintBanner
  \/ Connect(1)
  \/ Send(1, AllRequests, MaxReqs)
  \/ ClientRead(1)
  \/ ClientShut(1)
  \/ ClientAbort(1)
  \/ Accept(1)
  \/ ReadRequest(1)
  \/ CopyChunk(1)
  \/ FinishRequest(1)
  \/ HandleError(1)

Spec == Init /\ [][Next]_vars

NextConc ==
  \/ Bind
  \/ PrintBanner
  \/ \E c \in Conns :
       \/ Connect(c)
       \/ Send(c, SmallRequests, 1)
       \/ ClientRead(c)
       \/ ClientShut(c)
       \/ ClientAbort(c)
       \/ Accept(c)
       \/ ReadRequest(c)
       \/ CopyChunk(c)
       \/ FinishRequest(c)
       \/ HandleError(c)

SpecConc == Init /\ [][NextConc]_vars

\* SpecConc with the server's thread running on: once a handler has returned or
\* raised, process_request goes on to shutdown_request
SpecLive ==
  /\ Init /\ [][NextConc]_vars
  /\ \A c \in Conns : WF_vars(FinishRequest(c)) /\ WF_vars(HandleError(c))

(***************************************************************************)
(* Vocabulary of the properties.                                           *)
(***************************************************************************)
\* the exchanges of all connections
Exchanges == UNION { Range(conn[c].resp) : c \in Conns }

\* the server wrote something for the request
Responded(e) == e.head # <<>> \/ e.body # <<>>

\* how many lines of a header block are the line h
Count(h, head) == Cardinality({ i \in DOMAIN head : head[i] = h })

\* the status code of the status line, "" when the reply has no status line
Status(e) == IF e.head = <<>> THEN "" ELSE e.head[1][2]

\* the value of the header named k, "" when absent
HeaderValue(e, k) ==
  IF \E i \in DOMAIN e.head : i > 1 /\ e.head[i][1] = k
  THEN e.head[CHOOSE i \in DOMAIN e.head : i > 1 /\ e.head[i][1] = k][2]
  ELSE ""

\* a request line of three words ending in HTTP/1.0 or HTTP/1.1, with a header block
\* within the parser's limits: the requests parse_request accepts as HTTP/1.x
WellFormed(r) ==
  /\ r.kind = "w3"
  /\ r.version \in {"HTTP/1.0", "HTTP/1.1"}
  /\ r.hdr \in {"ok", "nocolon"}

\* the requests answered in the HTTP/0.9 style: the request line has no version, or
\* its version is rejected or is HTTP/0.9
Simple(r) ==
  \/ r.kind \in {"w1", "w2"}
  \/ r.kind \in {"w3", "w4"} /\ r.version \in {"HTTP/0.9", "HTTP/2.0", "FOO/1.1"}

(***************************************************************************)
(* C1: every response carries each of the two headers exactly once.        *)
(***************************************************************************)
\* C1 as stated: every response the server sends, whatever the request and the
\* status, contains the line Cross-Origin-Opener-Policy: same-origin exactly once and
\* the line Cross-Origin-Embedder-Policy: require-corp exactly once.
C1_EveryResponseHasBoth ==
  \A e \in Exchanges :
    Responded(e) => Count(COOP, e.head) = 1 /\ Count(COEP, e.head) = 1

\* C1, amended: every response that has a header block -- the response to any request
\* that is not answered in the HTTP/0.9 style -- contains each of the two lines
\* exactly once, before the blank line that ends the block; a response in the
\* HTTP/0.9 style has no status line and no header at all.
C1_HeadersOnceWhenHeadersSent ==
  \A e \in Exchanges :
    Responded(e) =>
      IF Simple(e.req)
      THEN e.head = <<>>
      ELSE /\ Count(COOP, e.head) = 1
           /\ Count(COEP, e.head) = 1
           /\ Count(BlankLine, e.head) = 1
           /\ e.head[Len(e.head)] = BlankLine

\* an error response (404) with a header block, carrying both lines
C1_Witness ==
  \E e \in Exchanges :
    /\ Status(e) = "404"
    /\ Count(COOP, e.head) = 1
    /\ Count(COEP, e.head) = 1

(***************************************************************************)
(* C2: a client that holds its connection open does not delay another.     *)
(***************************************************************************)
\* the handler of connection c waits for its client: for a request line the client
\* has not sent, or for room in the buffer of a client that is not reading
Blocked(c) ==
  \/ /\ hd[c].pc = "readline"
     /\ conn[c].inbuf = <<>>
     /\ conn[c].client = "open"
  \/ /\ hd[c].pc = "copy"
     /\ read_chunk(hd[c].x.f, hd[c].pos) # <<>>
     /\ ~conn[c].window
     /\ conn[c].client # "gone"

\* C2 as stated: while one client holds its connection open (it has sent no request
\* yet, or it is slow to read a response under way), a second client that has
\* connected and sent its request is served without waiting: the server can take
\* up the second connection at once.
C2_SecondClientNotDelayed ==
  \A c1, c2 \in Conns :
    ( /\ c1 # c2
      /\ Blocked(c1)
      /\ conn[c2].state = "pending"
      /\ conn[c2].client = "open"
      /\ conn[c2].inbuf # <<>>
      /\ backlog # <<>>
      /\ Head(backlog) = c2 )
    => ENABLED Accept(c2)

(***************************************************************************)
(* C3: request paths with traversal sequences.                             *)
(***************************************************************************)
\* the path has a ".." segment, plain or percent-encoded
HasTraversal(path) ==
  \E i \in DOMAIN path.segs : ".." \in Range(unquote(path.segs[i]))

\* a well-formed HTTP/1.x GET or HEAD request
GetOrHead(r) == WellFormed(r) /\ r.command \in {"GET", "HEAD"}

\* the bytes of the files outside the served root
OutsideBytes == UNION { Range(f.content) : f \in Files \ { g \in Files : IsPrefix(directory, g.path) } }

\* where a path leads when its "." and ".." segments are resolved inside the served
\* root, the root being its own parent
TargetInRoot(path) == directory \o OsResolve(unquoteAll(path.segs), <<>>)

\* C3 as stated: a request whose path contains a traversal sequence is answered 404,
\* and the body never contains content of a file outside the served root.
C3_TraversalGets404 ==
  \A e \in Exchanges :
    (GetOrHead(e.req) /\ HasTraversal(e.req.path)) =>
      /\ Status(e) = "404"
      /\ Range(e.body) \cap OutsideBytes = {}

\* C3, amended: the ".." segments of a request path are resolved inside the served
\* root (never above it) and the request is answered as one for the place they lead
\* to: 404 when no file or directory is there, the file (200, or 304) when a
\* readable file is there, the directory (200, or 301) when a directory is there; the
\* body never contains content of a file outside the served root.
C3_TraversalStaysInRoot ==
  \A e \in Exchanges :
    (GetOrHead(e.req) /\ HasTraversal(e.req.path)) =>
      LET t == TargetInRoot(e.req.path)
          files == { f \in Files : f.path = t }
      IN /\ Range(e.body) \cap OutsideBytes = {}
         /\ (t \notin Dirs /\ files = {}) => Status(e) = "404"
         /\ t \in Dirs => Status(e) \in {"200", "301"}
         /\ \A f \in files :
              (f.readable /\ ~EndsWithSlash(e.req.path)) =>
                /\ Status(e) \in {"200", "304"}
                /\ (e.done /\ Status(e) = "200" /\ e.req.command = "GET") => e.body = f.content

\* a path with ".." that is answered 200 with a file of the served root
C3_Witness ==
  \E e \in Exchanges :
    /\ GetOrHead(e.req)
    /\ HasTraversal(e.req.path)
    /\ e.done
    /\ Status(e) = "200"
    /\ e.body = <<"a1", "a2", "a3">>

(***************************************************************************)
(* C4: a GET for a file returns the file.                                  *)
(***************************************************************************)
InRootFiles == { f \in Files : IsPrefix(directory, f.path) }

\* the URL path of a file of the served root: its path below the root, after "/"
UrlOf(f) == Path(TRUE, SubSeq(f.path, Len(directory) + 1, Len(f.path)), FALSE)

\* the request carries a well-formed If-Modified-Since date that is not before the
\* file's modification time
NotModifiedSince(r, f) ==
  /\ r.hdr = "ok"
  /\ r.ims \in {"old", "new"}
  /\ f.mtime <= parsedate[r.ims][1]

Returns200WithContent(e, f) ==
  /\ Status(e) = "200"
  /\ HeaderValue(e, "Content-Length") = ToString(Len(f.content))
  /\ e.body = f.content

\* C4 as stated: for every regular file of N bytes under the served root, a GET for
\* its path returns 200, Content-Length N and the file's bytes as the body.  (Files
\* that cannot be read are left to C7.)
C4_GetReturnsFile ==
  \A e \in Exchanges : \A f \in InRootFiles :
    ( /\ e.done
      /\ WellFormed(e.req)
      /\ e.req.command = "GET"
      /\ e.req.path = UrlOf(f)
      /\ f.readable )
    => Returns200WithContent(e, f)

\* C4, amended: for every regular file of N bytes under the served root that the
\* server can open for reading, a GET for its path that carries no If-Modified-Since
\* date at or after the file's modification time returns 200, Content-Length N and
\* the file's bytes as the body.
C4_GetReturnsReadableFile ==
  \A e \in Exchanges : \A f \in InRootFiles :
    ( /\ e.done
      /\ WellFormed(e.req)
      /\ e.req.command = "GET"
      /\ e.req.path = UrlOf(f)
      /\ f.readable
      /\ ~NotModifiedSince(e.req, f) )
    => Returns200WithContent(e, f)

\* /a, three bytes, was returned whole in two chunks
C4_Witness ==
  \E e \in Exchanges :
    /\ e.done
    /\ e.req.command = "GET"
    /\ e.req.path = Path(TRUE, <<"a">>, FALSE)
    /\ Status(e) = "200"
    /\ HeaderValue(e, "Content-Length") = "3"
    /\ e.body = <<"a1", "a2", "a3">>

(***************************************************************************)
(* C5: methods other than GET and HEAD.                                    *)
(***************************************************************************)
\* C5: every request (a well-formed HTTP/1.x request, on any path) whose method is
\* neither GET nor HEAD is answered with status 501.
C5_OtherMethods501 ==
  \A e \in Exchanges :
    (WellFormed(e.req) /\ e.req.command \notin {"GET", "HEAD"}) =>
      /\ Status(e) = "501"
      /\ e.body = ErrorBody(501)
      /\ e.done

\* a POST answered 501
C5_Witness ==
  \E e \in Exchanges :
    /\ WellFormed(e.req)
    /\ e.req.command = "POST"
    /\ Status(e) = "501"

(***************************************************************************)
(* C6: a GET for a path that names nothing.                                *)
(***************************************************************************)
\* no file and no directory is at the place the path leads to under the served root
NamesNothing(path) ==
  /\ TargetInRoot(path) \notin Dirs
  /\ \A f \in Files : f.path # TargetInRoot(path)

\* C6: a GET request (well-formed, HTTP/1.x) for a path that corresponds to no file
\* and no directory under the served root is answered with status 404.
C6_MissingPath404 ==
  \A e \in Exchanges :
    (WellFormed(e.req) /\ e.req.command = "GET" /\ NamesNothing(e.req.path)) =>
      /\ Status(e) = "404"
      /\ e.body = ErrorBody(404)
      /\ e.done

\* GET /nope answered 404
C6_Witness ==
  \E e \in Exchanges :
    /\ WellFormed(e.req)
    /\ e.req.command = "GET"
    /\ e.req.path = Path(TRUE, <<"nope">>, FALSE)
    /\ Status(e) = "404"

(***************************************************************************)
(* C7: a file that exists and cannot be read.                              *)
(***************************************************************************)
\* the path leads to an existing regular file that open() refuses
NamesUnreadableFile(path) ==
  /\ ~EndsWithSlash(path)
  /\ \E f \in Files : f.path = TargetInRoot(path) /\ ~f.readable

\* C7 as stated: when the path resolves to an existing file that cannot be read, the
\* response has status 500.
C7_Unreadable500 ==
  \A e \in Exchanges :
    (GetOrHead(e.req) /\ NamesUnreadableFile(e.req.path)) => Status(e) = "500"

\* C7, amended: when the path resolves to an existing file that cannot be opened for
\* reading, the response has status 404, the same "File not found" error as for a
\* path that names nothing (not 500).
C7_Unreadable404 ==
  \A e \in Exchanges :
    (GetOrHead(e.req) /\ NamesUnreadableFile(e.req.path)) =>
      /\ Status(e) = "404"
      /\ Count(<<"Connection", "close">>, e.head) = 1
      /\ e.done
      /\ e.body = IF e.req.command = "HEAD" THEN <<>> ELSE ErrorBody(404)

\* GET /s, which exists and is unreadable, answered 404
C7_Witness ==
  \E e \in Exchanges :
    /\ GetOrHead(e.req)
    /\ e.req.path = Path(TRUE, <<"s">>, FALSE)
    /\ NamesUnreadableFile(e.req.path)
    /\ Status(e) = "404"

(***************************************************************************)
(* C8: malformed requests.                                                 *)
(***************************************************************************)
\* the request line is malformed: one word; a method other than GET without a
\* version; a last word that is no HTTP/<int>.<int>; more than three words
MalformedLine(r) ==
  \/ r.kind = "w1"
  \/ r.kind = "w2" /\ r.command # "GET"
  \/ r.kind \in {"w3", "w4"} /\ r.version = "FOO/1.1"
  \/ r.kind = "w4" /\ r.version \in {"HTTP/0.9", "HTTP/1.0", "HTTP/1.1"}

\* the header block is malformed: a line without a colon
MalformedHeaders(r) == r.kind \in {"w2", "w3"} /\ r.hdr = "nocolon"

\* the 400 error page, under a 400 status line if there is a status line
Is400(e) == e.body = ErrorBody(400) /\ Status(e) \in {"", "400"}

\* the i-th request of connection c was the last one read from it
ClosedAfter(c, i) ==
  /\ i = Len(conn[c].resp)
  /\ hd[c].pc \in {"loop", "none"}
  /\ hd[c].pc = "loop" => hd[c].x.close_connection

CorrectlyServed(e) ==
  /\ e.req.command \notin {"GET", "HEAD"} => Status(e) = "501"
  /\ (e.req.command = "GET" /\ NamesNothing(e.req.path)) => Status(e) = "404"
  /\ \A f \in InRootFiles :
       (e.req.command = "GET" /\ e.req.path = UrlOf(f) /\ f.readable /\ e.done)
         => Returns200WithContent(e, f)

\* C9: once the handling of a connection has failed (the client reset it while the
\* handler read the request or wrote the response, and the exception left the
\* handler), the server process is still in its accept loop, it can accept the next
\* queued connection as soon as no handler runs, and the requests of the other
\* connections are answered correctly.
C9_ServerSurvivesFailure ==
  (\E d \in Conns : conn[d].failed \/ hd[d].pc = "raised") =>
    /\ main.pc = "serving"
    /\ (ServerIdle /\ backlog # <<>>) => ENABLED Accept(Head(backlog))
    /\ \A c \in Conns : \A e \in Range(conn[c].resp) : WellFormed(e.req) => CorrectlyServed(e)

\* the first connection failed, and the second one, accepted after the failure, got
\* its file and was closed
C9_Witness ==
  /\ conn[1].failed
  /\ conn[2].state = "closed"
  /\ ~conn[2].failed
  /\ \E e \in Range(conn[2].resp) :
       e.done /\ Status(e) = "200" /\ e.body = <<"a1", "a2", "a3">>

(***************************************************************************)
(* C10: protocol version and keep-alive.                                   *)
(***************************************************************************)
\* the last request read on connection c
LastRequest(c) == conn[c].resp[Len(conn[c].resp)].req

\* C10 as stated: the response to an HTTP/1.1 request without "Connection: close"
\* carries version HTTP/1.1 in its status line, and after it the server keeps the
\* connection open for the next request.
C10_Http11KeepAlive ==
  \A c \in Conns :
    ( /\ hd[c].pc = "loop"
      /\ conn[c].resp # <<>>
      /\ WellFormed(LastRequest(c))
      /\ LastRequest(c).version = "HTTP/1.1"
      /\ lower(LastRequest(c).connection) # "close" )
    => /\ conn[c].resp[Len(conn[c].resp)].head[1][1] = "HTTP/1.1"
       /\ ~hd[c].x.close_connection

\* C10, amended: the server speaks HTTP/1.0 without keep-alive: every response status
\* line carries version HTTP/1.0, and after answering a request, whatever its HTTP
\* version and its Connection header, the server closes the connection: the handler
\* leaves its loop and never reads a request after the first response.
C10_Http10CloseAfterResponse ==
  /\ \A e \in Exchanges : e.head # <<>> => e.head[1][1] = "HTTP/1.0"
  /\ \A c \in Conns :
       /\ hd[c].pc = "loop" => hd[c].x.close_connection
       /\ (hd[c].pc = "readline" \/ conn[c].state = "pending") => conn[c].resp = <<>>

\* an HTTP/1.1 request with "Connection: Keep-Alive" was answered under an HTTP/1.0
\* status line and the socket closed, the client's next request left unread
C10_Witness ==
  \E c \in Conns :
    /\ conn[c].state = "closed"
    /\ Len(conn[c].resp) = 1
    /\ LastRequest(c).version = "HTTP/1.1"
    /\ LastRequest(c).connection = "Keep-Alive"
    /\ conn[c].resp[1].head[1][1] = "HTTP/1.0"
    /\ conn[c].inbuf # <<>>

(***************************************************************************)
(* C11: one connection's requests are handled in arrival order.            *)
(***************************************************************************)
\* what was written for a request only grows
Extends(old, new) ==
  /\ new.req = old.req
  /\ IsPrefix(old.head, new.head)
  /\ IsPrefix(old.body, new.body)
  /\ old.done => new = old

HandlerEnded(c) ==
  \/ hd[c].pc = "raised"
  \/ hd[c].pc = "loop" /\ ~loop_again(hd[c].x)

\* C12: a connection's socket is open on the server's side (accepted, not closed)
\* exactly while its handler exists, so no state has an accepted connection whose
\* handler is gone and whose socket is still open; a handler is created for a
\* connection only by accepting it from the queue, hence once per socket, and never
\* again after the socket is closed; and once a handler has completed or failed the
\* server eventually closes its socket.
C12_SocketClosedWithHandler ==
  /\ [](\A c \in Conns : conn[c].state = "accepted" <=> hd[c].pc # "none")
  /\ [][ \A c \in Conns :
           /\ (hd[c].pc = "none" /\ hd'[c].pc # "none") =>
                conn[c].state = "pending" /\ conn'[c].state = "accepted"
           /\ conn[c].state = "closed" => conn'[c].state = "closed" ]_vars
  /\ \A c \in Conns : HandlerEnded(c) ~> conn[c].state = "closed"

\* one connection's handler failed and another's completed, and both sockets are
\* closed and without handler
C12_Witness ==
  \E c, d \in Conns :
    /\ conn[c].failed /\ conn[c].state = "closed" /\ hd[c].pc = "none"
    /\ ~conn[d].failed /\ conn[d].state = "closed" /\ hd[d].pc = "none"
    /\ conn[d].resp # <<>>

(***************************************************************************)
(* C13: requests are stateless.                                            *)
(***************************************************************************)
\* what a handler that has seen nothing before writes for the request r
Answer(r) == handle_one_request(NewHandler, r)

\* its status code, "" when it writes no status line
AnswerStatus(r) == IF Answer(r).head = <<>> THEN "" ELSE Answer(r).head[1][2]

\* its whole body: the error page, or the file object copied to its end
AnswerBody(r) == Answer(r).body \o Answer(r).f

WasAccepted(c) == conn[c].state \in {"accepted", "closed"}

\* C14: when the bind fails the process exits with a non-zero status, having printed
\* nothing and accepted no connection (none was even queued); the startup message,
\* which names http://localhost:<PORT>, is on the output only once the bind has
\* succeeded, is printed once, and is there before any connection is accepted.
C14_BindFailureAndBanner ==
  /\ main.pc = "exited" =>
       /\ main.status # 0
       /\ stdout = <<>>
       /\ \A c \in Conns : conn[c].state = "unused" /\ hd[c].pc = "none"
  /\ main.pc = "start" => stdout = <<>>
  /\ stdout # <<>> => stdout = <<Banner>> /\ main.pc = "serving"
  /\ \A c \in Conns : WasAccepted(c) => stdout = <<Banner>>

\* the bind failed: the process is gone with status 1 and an empty output
C14_Witness ==
  /\ main.pc = "exited"
  /\ main.status = 1
  /\ stdout = <<>>
  /\ backlog = <<>>

(***************************************************************************)
(* C15: requests for a directory.                                          *)
(***************************************************************************)
\* a well-formed HTTP/1.x GET whose path leads to a directory of the served root
DirectoryGet(r) ==
  /\ WellFormed(r)
  /\ r.command = "GET"
  /\ TargetInRoot(r.path) \in Dirs

\* the regular files named index.html in the directory t
IndexHtml(t) == { f \in Files : f.path = Append(t, "index.html") }

\* the generated listing of the directory t
Listing(t) == <<"listing">> \o ListEntries([comps |-> t, slash |-> TRUE])

Active == { c \in Conns : hd[c].pc # "none" }

\* C16: at most one handler is active, and at most one socket is accepted and open,
\* at any time; a step that accepts a connection takes the oldest queued one, and only
\* when no handler exists and every connection accepted before has been closed.
C16_Serial ==
  /\ [](Cardinality(Active) <= 1)
  /\ [](Cardinality({ c \in Conns : conn[c].state = "accepted" }) <= 1)
  /\ [][ \A c \in Conns :
           (conn[c].state = "pending" /\ conn'[c].state = "accepted") =>
             /\ c = Head(backlog)
             /\ Active = {}
             /\ \A d \in Conns \ {c} : conn[d].state \in {"unused", "pending", "closed"} ]_vars

\* an earlier connection was answered and closed, and only a later connection is
\* accepted and has a running handler
C16_Witness ==
  \E c, d \in Conns :
    /\ c < d
    /\ conn[c].state = "closed" /\ conn[c].resp # <<>>
    /\ conn[d].state = "accepted"
    /\ Active = {d}

(***************************************************************************)
(* C17: at most one request is answered per connection.                    *)
(***************************************************************************)
\* C17: the server reads at most one request on a connection; once the response to
\* it is complete the handler is at the end of its loop, which it leaves, or the
\* socket is already closed, whatever the request's version and Connection header;
\* what the client sent after its first request stays unread.
C17_OneRequestPerConnection ==
  \A c \in Conns :
    /\ Len(conn[c].resp) <= 1
    /\ (conn[c].resp # <<>> /\ conn[c].resp[1].done) =>
         /\ hd[c].pc \in {"loop", "none"}
         /\ hd[c].pc = "loop" => ~loop_again(hd[c].x)
         /\ hd[c].pc = "none" => conn[c].state = "closed"
    /\ Len(conn[c].inbuf) >= conn[c].nsent - 1

\* a client asked for a file with "Connection: Keep-Alive" and sent a second request;
\* the file was sent in full, the socket is closed and the second request unread
C17_Witness ==
  \E c \in Conns :
    /\ conn[c].nsent = 2
    /\ Len(conn[c].inbuf) = 1
    /\ conn[c].state = "closed"
    /\ conn[c].resp[1].done
    /\ Status(conn[c].resp[1]) = "200"
    /\ conn[c].resp[1].req.connection = "Keep-Alive"

====
